---- MODULE Spec2Model ----
(***************************************************************************)
(* A model of the ast-grep command line: crates/cli/src/utils/args.rs      *)
(* (InputArgs, OutputArgs, NoIgnore, SeverityArg) and crates/cli/src/      *)
(* main.rs (main_with_args).  Strings whose characters the code inspects   *)
(* (globs, command-line tokens, file names) are sequences of one-character *)
(* strings, so that starts_with, glob compilation and glob matching are    *)
(* computed rather than looked up.                                         *)
(***************************************************************************)
EXTENDS Integers, Sequences, FiniteSets, TLC

VARIABLES
  input,        \* the InputArgs value a walk is built from
  parallelism,  \* std::thread::available_parallelism(): 0 = Err, n > 0 = Ok(n)
  cwd,          \* std::env::current_dir(): TRUE = Ok, FALSE = Err
  walker,       \* the outcome of InputArgs::walk / InputArgs::walk_lang
  ruleDefault,  \* each rule's own severity
  given,        \* the severity flags given so far, in command-line order
  sev,          \* the SeverityArg value clap has filled so far
  resolved,     \* <<each rule's effective severity>>, <<>> before resolution
  argv,         \* the arguments handed to main_with_args
  outcome,      \* what main_with_args did with them
  testCase,     \* the test case under verification
  verifier,     \* the verifier's position, counters and report
  stream,       \* session: the edits not yet offered, file then position
  pending,      \* session: the offered edit awaiting the user's decision
  deferred,     \* session: the edits marked Deferred (to the editor)
  stale,        \* session: the files a StaleFileError was reported for
  accepted,     \* session: the edits marked Accepted
  rejected,     \* session: the edits marked Rejected
  applied,      \* session: the edits applied to their files
  offered,      \* session: how many edits were offered
  phase,        \* session: Awaiting-Decision, Done or Aborted
  fileMode      \* session: per file, ask / accept all / reject all

walkVars == <<input, parallelism, cwd, walker>>
sevVars == <<ruleDefault, given, sev, resolved>>
cliVars == <<argv, outcome>>
verifyVars == <<testCase, verifier>>
sessVars ==
  <<stream, pending, deferred, stale, accepted, rejected, applied, offered,
    phase, fileMode>>

vars == <<walkVars, sevVars, cliVars, verifyVars, sessVars>>

(***************************************************************************)
(* Bounds of the model.                                                    *)
(***************************************************************************)
MaxKinds == 3      \* --no-ignore occurrences
MaxPaths == 2      \* positional paths
MaxGlobs == 2      \* --globs occurrences
MaxThreads == 3    \* largest -j value tried
MaxCores == 13     \* largest available parallelism tried (beyond the cap)
MaxFlags == 3      \* severity flags on one command line
MaxArgs == 4       \* arguments after the program name
MaxSnippets == 2   \* valid (and invalid) snippets of a test case
MaxEdits == 3      \* edits of one file

\* The cap of the thread heuristic, `.min(12)`.
ThreadCap == 12

SeqsUpTo(S, n) == UNION {[1..k -> S] : k \in 0..n}

Min(a, b) == IF a <= b THEN a ELSE b

Range(s) == {s[i] : i \in 1..Len(s)}

(***************************************************************************)
(* IgnoreFile and NoIgnore                                                 *)
(***************************************************************************)
IgnoreFile == {"Hidden", "Dot", "Exclude", "Global", "Parent", "Vcs"}

\* #[derive(Default)] struct NoIgnore: every flag false.
NoIgnoreDefault ==
  [disregard_hidden |-> FALSE, disregard_parent |-> FALSE,
   disregard_dot |-> FALSE, disregard_vcs |-> FALSE,
   disregard_global |-> FALSE, disregard_exclude |-> FALSE]

\* disregard_arm with the Dot arm setting the flag of the Hidden arm.
disregard_arm_dot_sets_hidden(ret, ignore) ==
  CASE ignore = "Hidden"  -> [ret EXCEPT !.disregard_hidden = TRUE]
    [] ignore = "Dot"     -> [ret EXCEPT !.disregard_hidden = TRUE]
    [] ignore = "Exclude" -> [ret EXCEPT !.disregard_exclude = TRUE]
    [] ignore = "Global"  -> [ret EXCEPT !.disregard_global = TRUE]
    [] ignore = "Parent"  -> [ret EXCEPT !.disregard_parent = TRUE]
    [] ignore = "Vcs"     -> [ret EXCEPT !.disregard_vcs = TRUE]

\* One arm of the match in NoIgnore::disregard.
disregard_arm(ret, ignore) ==
  CASE ignore = "Hidden"  -> [ret EXCEPT !.disregard_hidden = TRUE]
    [] ignore = "Dot"     -> [ret EXCEPT !.disregard_dot = TRUE]
    [] ignore = "Exclude" -> [ret EXCEPT !.disregard_exclude = TRUE]
    [] ignore = "Global"  -> [ret EXCEPT !.disregard_global = TRUE]
    [] ignore = "Parent"  -> [ret EXCEPT !.disregard_parent = TRUE]
    [] ignore = "Vcs"     -> [ret EXCEPT !.disregard_vcs = TRUE]

RECURSIVE disregard_loop(_, _)
disregard_loop(ret, ignores) ==
  IF ignores = <<>> THEN ret
  ELSE disregard_loop(disregard_arm(ret, Head(ignores)), Tail(ignores))

\* NoIgnore::disregard
disregard(ignores) == disregard_loop(NoIgnoreDefault, ignores)

\* A walker that was never built.
NoWalker ==
  [op |-> "none", status |-> "none", roots |-> <<>>,
   hidden |-> TRUE, parents |-> TRUE, ignore |-> TRUE,
   git_global |-> TRUE, git_ignore |-> TRUE, git_exclude |-> TRUE,
   threads |-> 0, follow_links |-> FALSE, overrides |-> <<>>, types |-> "all"]

\* NoIgnore_walk with git_exclude following the Exclude flag alone.
NoIgnore_walk_exclude_alone(self, path) ==
  IF path = <<>>
  THEN [NoWalker EXCEPT !.status = "panic"]
  ELSE [NoWalker EXCEPT
          !.status = "builder",
          !.roots = path,
          !.hidden = ~self.disregard_hidden,
          !.parents = ~self.disregard_parent,
          !.ignore = ~self.disregard_dot,
          !.git_global = ~self.disregard_vcs /\ ~self.disregard_global,
          !.git_ignore = ~self.disregard_vcs,
          !.git_exclude = ~self.disregard_exclude]

\* NoIgnore::walk: `paths.next().expect("non empty")` panics on an empty
\* slice; otherwise a WalkBuilder over every path with the six settings.
NoIgnore_walk(self, path) ==
  IF path = <<>>
  THEN [NoWalker EXCEPT !.status = "panic"]
  ELSE [NoWalker EXCEPT
          !.status = "builder",
          !.roots = path,
          !.hidden = ~self.disregard_hidden,
          !.parents = ~self.disregard_parent,
          !.ignore = ~self.disregard_dot,
          !.git_global = ~self.disregard_vcs /\ ~self.disregard_global,
          !.git_ignore = ~self.disregard_vcs,
          !.git_exclude = ~self.disregard_vcs /\ ~self.disregard_exclude]

(***************************************************************************)
(* Globs: OverrideBuilder::add hands each glob to the gitignore line       *)
(* parser, which compiles it with the glob compiler (literal_separator,    *)
(* backslash_escape).                                                      *)
(***************************************************************************)
\* Characters in code order, for the ranges of a class: the white space
\* U+0009 to U+000D (the third is U+000B), the printable ASCII characters,
\* and the white space beyond (first U+0085, U+00A0 and U+1680).  A
\* character that a string here cannot hold stands as its code point
\* ("U+0060" is the backtick).
CharOrder ==
  <<"\t", "\n", "", "\f", "\r">>
    \o <<" ", "!", "\"", "#", "$", "%", "&", "'", "(", ")", "*", "+", ",",
        "-", ".", "/", "0", "1", "2", "3", "4", "5", "6", "7", "8", "9",
        ":", ";", "<", "=", ">", "?", "@">>
    \o <<"A", "B", "C", "D", "E", "F", "G", "H", "I", "J", "K", "L", "M",
        "N", "O", "P", "Q", "R", "S", "T", "U", "V", "W", "X", "Y", "Z",
        "[", "\\", "]", "^", "_">>
    \o <<"U+0060">>
    \o <<"a", "b", "c", "d", "e", "f", "g", "h", "i", "j", "k", "l", "m",
        "n", "o", "p", "q", "r", "s", "t", "u", "v", "w", "x", "y", "z",
        "{", "|", "}", "~">>
    \o <<"", " ", " ">>
    \o <<"U+2000", "U+2001", "U+2002", "U+2003", "U+2004", "U+2005",
         "U+2006", "U+2007", "U+2008", "U+2009", "U+200A", "U+2028",
         "U+2029", "U+202F", "U+205F", "U+3000">>

Ord(c) == CHOOSE i \in 1..Len(CharOrder) : CharOrder[i] = c

\* The code points of the characters of CharOrder, in its order.
CodePoints ==
  <<9, 10, 11, 12, 13>> \o [i \in 1..95 |-> 31 + i] \o <<133, 160, 5760>>
    \o [i \in 1..11 |-> 8191 + i] \o <<8232, 8233, 8239, 8287, 12288>>

\* char::encode_utf8: the bytes of a code point below U+10000.
encode_utf8(cp) ==
  IF cp < 128 THEN <<cp>>
  ELSE IF cp < 2048 THEN <<192 + (cp \div 64), 128 + (cp % 64)>>
  ELSE <<224 + (cp \div 4096), 128 + ((cp \div 64) % 64), 128 + (cp % 64)>>

Utf8Table ==
  [c \in Range(CharOrder) |-> encode_utf8(CodePoints[Ord(c)])]

\* The bytes of a character, and of a string.
Utf8(c) == Utf8Table[c]

RECURSIVE Bytes(_)
Bytes(s) == IF s = <<>> THEN <<>> ELSE Utf8(Head(s)) \o Bytes(Tail(s))

DropFirst(s, n) == SubSeq(s, n + 1, Len(s))
DropLast(s, n) == SubSeq(s, 1, Len(s) - n)
StartsWith(s, p) == Len(s) >= Len(p) /\ SubSeq(s, 1, Len(p)) = p
EndsWith(s, p) == Len(s) >= Len(p) /\ SubSeq(s, Len(s) - Len(p) + 1, Len(s)) = p

\* char::is_whitespace: the White_Space characters, U+0009 to U+000D,
\* U+0020, U+0085, U+00A0, U+1680 (the first row, in this order), U+2000
\* to U+200A, U+2028, U+2029, U+202F, U+205F and U+3000.
WhiteSpace ==
  {"\t", "\n", "", "\f", "\r", " ", "", " ", " ",
   "U+2000", "U+2001", "U+2002", "U+2003", "U+2004", "U+2005",
   "U+2006", "U+2007", "U+2008", "U+2009", "U+200A", "U+2028",
   "U+2029", "U+202F", "U+205F", "U+3000"}

\* str::trim_end: every trailing white space character is dropped.
RECURSIVE trim_end(_)
trim_end(s) ==
  IF s # <<>> /\ s[Len(s)] \in WhiteSpace THEN trim_end(DropLast(s, 1)) ELSE s

\* GitignoreBuilder::add_line: a comment or an empty line adds nothing; a
\* leading '!' negates; a leading '/' anchors; a trailing '/' restricts the
\* glob to directories; a glob without '/' matches at any depth ("**/").
gitignore_line(glob) ==
  LET trimmed == IF EndsWith(glob, <<"\\", " ">>) THEN glob ELSE trim_end(glob)
      skip == StartsWith(glob, <<"#">>) \/ trimmed = <<>>
      escaped == StartsWith(trimmed, <<"\\",
          "!">>) \/ StartsWith(trimmed, <<"\\", "#">>)
      negated == ~escaped /\ StartsWith(trimmed, <<"!">>)
      l1 == IF escaped \/ negated THEN DropFirst(trimmed, 1) ELSE trimmed
      slash == ~escaped /\ StartsWith(l1, <<"/">>)
      absolute == slash
      l2 == IF slash THEN DropFirst(l1, 1) ELSE l1
      only_dir == EndsWith(l2, <<"/">>)
      l3 == IF only_dir
            THEN IF EndsWith(DropLast(l2, 1), <<"\\">>) THEN DropLast(l2, 2)
                 ELSE DropLast(l2, 1)
            ELSE l2
      l4 == IF ~absolute /\ (\A i \in 1..Len(l3) : l3[i] # "/")
               /\ ~(l3 = <<"*", "*">> /\ only_dir)
            THEN <<"*", "*", "/">> \o l3 ELSE l3
      l5 == IF EndsWith(l4, <<"/", "*", "*">>) THEN l4 \o <<"/", "*">> ELSE l4
  IN [skip |-> skip, negated |-> negated, only_dir |-> only_dir, actual |-> l5]

ParseFail == [ok |-> FALSE, toks |-> <<>>, next |-> 0, stop |-> "error"]

\* Parser::parse_class, from the character after '[' (and after '!' or '^'):
\* a first ']' or '-' is a member, "a-b" is a range and must not be
\* inverted, and the class must be closed.
RECURSIVE parse_class(_, _, _, _, _)
parse_class(g, i, ranges, first, in_range) ==
  IF i > Len(g) THEN [ok |-> FALSE, ranges |-> <<>>, next |-> i]
  ELSE LET c == g[i]
           n == Len(ranges)
           close(r) == [r EXCEPT ![n] = <<r[n][1], c>>]
       IN IF c = "]" /\ ~first
          THEN [ok |-> TRUE,
                ranges |-> IF in_range THEN Append(ranges, <<"-",
                    "-">>) ELSE ranges,
                next |-> i + 1]
          ELSE IF c = "]"
          THEN parse_class(g, i + 1, Append(ranges, <<"]",
              "]">>), FALSE, in_range)
          ELSE IF c = "-" /\ first
          THEN parse_class(g, i + 1, Append(ranges, <<"-",
              "-">>), FALSE, in_range)
          ELSE IF c = "-" /\ ~in_range
          THEN parse_class(g, i + 1, ranges, FALSE, TRUE)
          ELSE IF in_range
          THEN IF Ord(c) < Ord(ranges[n][1])
               THEN [ok |-> FALSE, ranges |-> <<>>, next |-> i]
               ELSE parse_class(g, i + 1, close(ranges), FALSE, FALSE)
          ELSE parse_class(g, i + 1, Append(ranges, <<c, c>>), FALSE, FALSE)

Lit(c) == [t |-> "lit", c |-> c]
Star == [t |-> "star"]

\* Parser::parse_star on "**" at g[i], g[i+1]: a recursive prefix at the
\* start, a recursive suffix or middle after a separator, two stars elsewhere.
parse_double_star(g, i, depth, toks) ==
  LET peek == IF i + 2 <= Len(g) THEN g[i + 2] ELSE ""
      prev == IF i > 1 THEN g[i - 1] ELSE ""
      two == [toks |-> toks \o <<Star, Star>>, next |-> i + 2]
      last == toks[Len(toks)]
      replace(tok) ==
        IF last.t \in {"recpre", "recsuf"} THEN toks
        ELSE Append(DropLast(toks, 1), tok)
  IN IF toks = <<>>
     THEN IF peek # "" /\ peek # "/" THEN two
          ELSE [toks |-> <<[t |-> "recpre"]>>, next |-> i + 3]
     ELSE IF prev # "/" /\ (depth = 0 \/ (prev # "," /\ prev # "{"))
     THEN two
     ELSE IF peek = "" \/ (peek \in {",", "}"} /\ depth >= 1)
     THEN [toks |-> replace([t |-> "recsuf"]), next |-> i + 2]
     ELSE IF peek = "/"
     THEN [toks |-> replace([t |-> "reczom"]), next |-> i + 3]
     ELSE two

\* Parser::parse: the tokens of a glob from g[i] on, inside `depth` open
\* alternations; it stops at the end, or inside an alternation at ',' or '}'.
RECURSIVE parse_tokens(_, _, _, _)
RECURSIVE parse_alternates(_, _, _, _)
parse_tokens(g, i, depth, toks) ==
  IF i > Len(g) THEN [ok |-> TRUE, toks |-> toks, next |-> i, stop |-> "end"]
  ELSE LET c == g[i]
       IN CASE c = "?" -> parse_tokens(g, i + 1, depth, Append(toks, [t |-> "any"]))
            [] c = "*" ->
                 IF i + 1 <= Len(g) /\ g[i + 1] = "*"
                 THEN LET d == parse_double_star(g, i, depth, toks)
                      IN parse_tokens(g, d.next, depth, d.toks)
                 ELSE parse_tokens(g, i + 1, depth, Append(toks, Star))
            [] c = "[" ->
                 LET negated == i + 1 <= Len(g) /\ g[i + 1] \in {"!", "^"}
                     cls == parse_class(g, IF negated THEN i + 2 ELSE i + 1, <<>>, TRUE, FALSE)
                 IN IF ~cls.ok THEN ParseFail
                    ELSE parse_tokens(g, cls.next, depth,
                           Append(toks, [t |-> "class", negated |-> negated,
                                         ranges |-> cls.ranges]))
            [] c = "{" ->
                 LET alts == parse_alternates(g, i + 1, depth + 1, <<>>)
                 IN IF ~alts.ok THEN ParseFail
                    ELSE parse_tokens(g, alts.next, depth,
                           Append(toks, [t |-> "alt", alts |-> alts.toks]))
            [] c = "}" ->
                 IF depth = 0 THEN ParseFail
                 ELSE [ok |-> TRUE, toks |-> toks, next |-> i + 1, stop |-> "}"]
            [] c = "," ->
                 IF depth = 0 THEN parse_tokens(g, i + 1, depth, Append(toks, Lit(c)))
                 ELSE [ok |-> TRUE, toks |-> toks, next |-> i + 1, stop |-> ","]
            [] c = "\\" ->
                 IF i = Len(g) THEN ParseFail
                 ELSE parse_tokens(g, i + 2, depth, Append(toks, Lit(g[i + 1])))
            [] OTHER -> parse_tokens(g, i + 1, depth, Append(toks, Lit(c)))

\* The branches of an alternation, up to its closing '}'.
parse_alternates(g, i, depth, branches) ==
  LET b == parse_tokens(g, i, depth, <<>>)
  IN IF ~b.ok \/ b.stop = "end" THEN ParseFail
     ELSE IF b.stop = ","
     THEN parse_alternates(g, b.next, depth, Append(branches, b.toks))
     ELSE [ok |-> TRUE, toks |-> Append(branches, b.toks), next |-> b.next, stop |-> "}"]

\* GlobBuilder::build
glob_parse(g) == parse_tokens(g, 1, 0, <<>>)

\* Whether OverrideBuilder::add accepts the glob.
glob_compiles(glob) ==
  LET line == gitignore_line(glob)
  IN line.skip \/ glob_parse(line.actual).ok

GlobRs == <<"*", ".", "r", "s">>
GlobNotToml == <<"!", "*", ".", "t", "o", "m", "l">>
GlobUnclosed == <<"*", ".", "{", "r", "s">>
GlobAlternates == <<"*", ".", "{", "r", "s", ",", "t", "s", "}">>
GlobUnclosedClass == <<"*", ".", "[", "r", "s">>
GlobInSrc == <<"s", "r", "c", "/", "*", ".", "r", "s">>
GlobDirs == <<"*", "*", "/">>
GlobComment == <<"#", "c">>
GlobTrailingTab == <<"*", ".", "t", "s", "\t">>
GlobChoices ==
  {GlobRs, GlobNotToml, GlobUnclosed, GlobAlternates, GlobUnclosedClass,
   GlobInSrc, GlobDirs, GlobComment, GlobTrailingTab}

\* InputArgs::build_globs: the current directory is read first
\* (`current_dir()?`), then `builder.add(glob)?` for each glob, then build.
\* The globs kept are those that add a pattern.
RECURSIVE build_globs_loop(_, _)
build_globs_loop(added, globs) ==
  IF globs = <<>> THEN [ok |-> TRUE, globs |-> added]
  ELSE IF ~glob_compiles(Head(globs)) THEN [ok |-> FALSE, globs |-> <<>>]
  ELSE build_globs_loop(IF gitignore_line(Head(globs)).skip THEN added
                        ELSE Append(added, Head(globs)),
                        Tail(globs))

build_globs(self, cwd_ok) ==
  IF ~cwd_ok THEN [ok |-> FALSE, globs |-> <<>>]
  ELSE build_globs_loop(<<>>, self.globs)

(***************************************************************************)
(* InputArgs                                                               *)
(***************************************************************************)
\* get_threads with an undetermined parallelism counted as 0 threads.
get_threads_unknown_is_zero(self, avail) ==
  IF self.threads = 0
  THEN Min(avail, ThreadCap)
  ELSE self.threads

\* InputArgs::get_threads
get_threads(self, avail) ==
  IF self.threads = 0
  THEN Min(IF avail = 0 THEN 1 ELSE avail, ThreadCap)
  ELSE self.threads

\* InputArgs::walk: the thread count, then the globs (an error returns), then
\* the builder of NoIgnore::walk.
InputArgs_walk(self, avail, cwd_ok) ==
  LET threads == get_threads(self, avail)
      globs == build_globs(self, cwd_ok)
  IN IF ~globs.ok
     THEN [NoWalker EXCEPT !.op = "walk", !.status = "err"]
     ELSE LET b == NoIgnore_walk(disregard(self.no_ignore), self.paths)
          IN IF b.status = "panic"
             THEN [b EXCEPT !.op = "walk"]
             ELSE [b EXCEPT !.op = "walk", !.status = "ok",
                            !.threads = threads,
                            !.follow_links = self.follow,
                            !.overrides = globs.globs]

\* InputArgs::walk_lang
InputArgs_walk_lang(self, lang, avail) ==
  LET threads == get_threads(self, avail)
      b == NoIgnore_walk(disregard(self.no_ignore), self.paths)
  IN IF b.status = "panic"
     THEN [b EXCEPT !.op = "walk_lang"]
     ELSE [b EXCEPT !.op = "walk_lang", !.status = "ok",
                    !.threads = threads,
                    !.follow_links = self.follow,
                    !.types = lang]

(***************************************************************************)
(* Which files a built walker yields.  Files are paths below the root.     *)
(***************************************************************************)
FileARs == <<"a", ".", "r", "s">>
FileAToml == <<"a", ".", "t", "o", "m", "l">>
FileBTxt == <<"b", ".", "t", "x", "t">>
FileCTs == <<"c", ".", "t", "s">>
FileDeepRs == <<"s", "r", "c", "/", "x", "/", "a", ".", "r", "s">>
Files == {FileARs, FileAToml, FileBTxt, FileCTs, FileDeepRs}

SgLang == {"Rust", "TypeScript"}

\* lang.augmented_file_type(): the globs of the language's file type.
augmented_file_type(lang) ==
  CASE lang = "Rust" -> {<<"*", ".", "r", "s">>}
    [] lang = "TypeScript" -> {<<"*", ".", "t", "s">>}
    [] OTHER -> {}

\* The byte ranges one item of a glob class puts into the regex class:
\* the item is written as the escaped bytes of its characters
\* (char_to_escaped_literal), and the regex, which is over bytes, reads each
\* byte as a member of its own; the '-' of a range stands between the last
\* byte of its lower end and the first byte of its upper end.
class_item(r) ==
  LET lo == Utf8(r[1])
      hi == Utf8(r[2])
  IN IF r[1] = r[2] THEN {<<lo[k], lo[k]>> : k \in 1..Len(lo)}
     ELSE {<<lo[k], lo[k]>> : k \in 1..(Len(lo) - 1)}
            \cup {<<lo[Len(lo)], hi[1]>>}
            \cup {<<hi[k], hi[k]>> : k \in 2..Len(hi)}

\* Whether the regex class of a glob class matches the byte b.
in_class(b, tok) ==
  (\E k \in 1..Len(tok.ranges) :
     \E r \in class_item(tok.ranges[k]) : r[1] <= b /\ b <= r[2])
    # tok.negated

\* Whether the regex of a token sequence is the empty string: only
\* alternations whose branches all are contribute nothing.
RECURSIVE regex_is_empty(_)
regex_is_empty(toks) ==
  \A i \in 1..Len(toks) :
    /\ toks[i].t = "alt"
    /\ \A k \in 1..Len(toks[i].alts) : regex_is_empty(toks[i].alts[k])

Slash == 47

\* Glob::tokens_to_regex, and the regex, (?-u), against the whole of the
\* bytes s: a literal is the bytes of its character; '?' and a class are one
\* byte; '?' and '*' do not cross '/', the recursive tokens span
\* directories, and an alternation keeps the branches whose regex is not
\* empty.
RECURSIVE is_match(_, _)
is_match(toks, s) ==
  IF toks = <<>> THEN s = <<>>
  ELSE LET tok == Head(toks)
           rest == Tail(toks)
           after(k) == DropFirst(s, k)
       IN CASE tok.t = "lit" ->
                 /\ StartsWith(s, Utf8(tok.c))
                 /\ is_match(rest, after(Len(Utf8(tok.c))))
            [] tok.t = "any" ->
                 s # <<>> /\ Head(s) # Slash /\ is_match(rest, Tail(s))
            [] tok.t = "star" ->
                 \/ is_match(rest, s)
                 \/ (s # <<>> /\ Head(s) # Slash /\ is_match(toks, Tail(s)))
            [] tok.t = "class" ->
                 /\ s # <<>> /\ in_class(Head(s), tok)
                 /\ is_match(rest, Tail(s))
            [] tok.t = "alt" ->
                 LET kept == {k \in 1..Len(tok.alts) : ~regex_is_empty(tok.alts[k])}
                 IN IF kept = {} THEN is_match(rest, s)
                    ELSE \E k \in kept : is_match(tok.alts[k] \o rest, s)
            [] tok.t = "recpre" ->
                 \/ is_match(rest, s)
                 \/ \E k \in 1..Len(s) :
                      s[k] = Slash /\ is_match(rest, after(k))
            [] tok.t = "recsuf" ->
                 s # <<>> /\ Head(s) = Slash
                 /\ \E k \in 1..Len(s) : is_match(rest, after(k))
            [] tok.t = "reczom" ->
                 s # <<>> /\ Head(s) = Slash
                 /\ \E k \in 1..Len(s) : s[k] = Slash /\ is_match(rest, after(k))

\* The regex of a token sequence against a path, taken as its bytes.
regex_match(toks, path) == is_match(toks, Bytes(path))

\* Glob::to_regex_with and is_match: a glob that is a recursive prefix and
\* nothing else matches every path.
tokens_match(toks, path) ==
  toks = <<[t |-> "recpre"]>> \/ regex_match(toks, path)

\* Whether a glob, compiled as build_globs adds it ('!' aside), matches a
\* path below the root.
glob_matches(glob, path) ==
  LET line == gitignore_line(glob)
      p == glob_parse(line.actual)
  IN ~line.skip /\ p.ok /\ tokens_match(p.toks, path)

glob_negated(glob) == gitignore_line(glob).negated

\* Override::matched over the globs that add a pattern (a comment or a
\* blank line adds none): with no pattern the answer is None; the last glob
\* that matches decides ('!' excludes, a plain glob includes; a glob ending
\* in '/' decides for directories only); with no match, a file is excluded
\* as soon as the set holds one plain glob.
override_matched(globs, path, is_dir) ==
  LET added == {i \in 1..Len(globs) : ~gitignore_line(globs[i]).skip}
      hits == {i \in added :
                 /\ glob_matches(globs[i], path)
                 /\ (is_dir \/ ~gitignore_line(globs[i]).only_dir)}
  IN IF added = {} THEN "None"
     ELSE IF hits = {}
          THEN IF ~is_dir /\ \E i \in added : ~glob_negated(globs[i])
               THEN "Ignore" ELSE "None"
          ELSE LET last == CHOOSE i \in hits : \A j \in hits : j <= i
               IN IF glob_negated(globs[last]) THEN "Ignore" ELSE "Whitelist"

\* The directories above a path, and the path's last component.
Ancestors(path) == {SubSeq(path, 1, k - 1) : k \in {j \in 2..Len(path) : path[j] = "/"}}

FileName(path) ==
  LET cuts == {j \in 1..Len(path) : path[j] = "/"}
  IN IF cuts = {} THEN path
     ELSE DropFirst(path, CHOOSE j \in cuts : \A k \in cuts : k <= j)

\* The files a built walker yields: a directory the overrides exclude is
\* not entered; for a file the overrides decide first, then the file-type
\* selection, which goes by the file's name.
Candidates(w) ==
  {f \in Files :
     /\ w.status = "ok"
     /\ \A d \in Ancestors(f) : override_matched(w.overrides, d, TRUE) # "Ignore"
     /\ LET o == override_matched(w.overrides, f, FALSE)
        IN CASE o = "Ignore" -> FALSE
             [] o = "Whitelist" -> TRUE
             [] OTHER -> \/ w.types = "all"
                         \/ \E g \in augmented_file_type(w.types) :
                              glob_matches(g, FileName(f))}

(***************************************************************************)
(* The walk state machine                                                  *)
(***************************************************************************)
PathChoices == {<<".">>, <<"s", "r", "c">>}

\* InputArgs as clap fills it when no option is given.
InputDefault ==
  [paths |-> <<<<".">>>>, follow |-> FALSE, no_ignore |-> <<>>, stdin |-> FALSE,
   globs |-> <<>>, threads |-> 0]

\* Inputs that vary one group of options from the defaults.
KindInputs ==
  {[InputDefault EXCEPT !.no_ignore = k] : k \in SeqsUpTo(IgnoreFile, MaxKinds)}

GlobInputs ==
  {[InputDefault EXCEPT !.paths = p, !.globs = g] :
     p \in SeqsUpTo(PathChoices, MaxPaths),
     g \in SeqsUpTo(GlobChoices, MaxGlobs)}

ThreadInputs ==
  {[InputDefault EXCEPT !.threads = t, !.follow = f] :
     t \in 0..MaxThreads, f \in BOOLEAN}

InputChoices == KindInputs \cup GlobInputs \cup ThreadInputs

Walk ==
  /\ walker' = InputArgs_walk(input, parallelism, cwd)
  /\ UNCHANGED <<input, parallelism, cwd, sevVars, cliVars, verifyVars, sessVars>>

WalkLang ==
  /\ \E lang \in SgLang : walker' = InputArgs_walk_lang(input, lang, parallelism)
  /\ UNCHANGED <<input, parallelism, cwd, sevVars, cliVars, verifyVars, sessVars>>

(***************************************************************************)
(* SeverityArg and severity resolution                                     *)
(***************************************************************************)
Levels == {"error", "warning", "info", "hint", "off"}

Rules == {"r1", "r2"}

\* The values one occurrence of a severity flag carries (num_args(0..),
\* require_equals, no value delimiter): none for a bare --off, one for
\* --off=r1, and the single value "r1,r2" for --off=r1,r2.
FlagValues == {<<>>, <<"r1">>, <<"r2">>, <<"r1,r2">>}

\* The severities a rule file may declare for a rule.
DefaultChoices == {"Warning", "Off"}

\* SeverityArg before any flag: every Option<Vec<String>> is None.  An
\* Option is a sequence of at most one element: <<>> is None, <<v>> Some(v).
SeverityArgNone ==
  [error |-> <<>>, warning |-> <<>>, info |-> <<>>, hint |-> <<>>, off |-> <<>>]

\* A severity flag stored with ArgAction::Set: the occurrence replaces what
\* the field held.
severity_flag_set(arg, level, ids) == [arg EXCEPT ![level] = <<ids>>]

\* One occurrence of --<level>[=id] under ArgAction::Append, num_args(0..):
\* its values are appended to what the field already holds, and the field
\* is Some even when the occurrence carries no value.
severity_flag(arg, level, ids) ==
  [arg EXCEPT ![level] = IF @ = <<>> THEN <<ids>> ELSE <<@[1] \o ids>>]

Listed(arg, level, rule) ==
  arg[level] # <<>> /\ \E i \in 1..Len(arg[level][1]) : arg[level][1][i] = rule

\* effective_severity(rule_id, overrides): Off first, then Error, Warning,
\* Info, Hint, then the rule's own default.
effective_severity(rule, arg, default) ==
  IF Listed(arg, "off", rule) THEN "Off"
  ELSE IF Listed(arg, "error", rule) THEN "Error"
  ELSE IF Listed(arg, "warning", rule) THEN "Warning"
  ELSE IF Listed(arg, "info", rule) THEN "Info"
  ELSE IF Listed(arg, "hint", rule) THEN "Hint"
  ELSE default

\* clap meets one more severity flag on the command line.
GiveSeverityFlag ==
  /\ resolved = <<>>
  /\ Len(given) < MaxFlags
  /\ \E level \in Levels, ids \in FlagValues :
       /\ given' = Append(given, [level |-> level, ids |-> ids])
       /\ sev' = severity_flag(sev, level, ids)
  /\ UNCHANGED <<ruleDefault, resolved, walkVars, cliVars, verifyVars, sessVars>>

\* The run resolves every rule's effective severity.
ResolveSeverity ==
  /\ resolved = <<>>
  /\ resolved' = <<[r \in Rules |-> effective_severity(r, sev, ruleDefault[r])]>>
  /\ UNCHANGED <<ruleDefault, given, sev, walkVars, cliVars, verifyVars, sessVars>>

(***************************************************************************)
(* main_with_args                                                          *)
(***************************************************************************)
TokSg == <<"s", "g">>
TokP == <<"-", "p">>
TokPattern == <<"-", "-", "p", "a", "t", "t", "e", "r", "n">>
TokCode == <<"S", "o", "m", "e", "(", "$", "A", ")">>
TokL == <<"-", "l">>
TokRs == <<"r", "s">>
TokTs == <<"t", "s">>
TokR == <<"-", "r">>
TokI == <<"-", "i">>
TokU == <<"-", "U">>
TokJson == <<"-", "-", "j", "s", "o", "n">>
TokJsonStream == <<"-", "-", "j", "s", "o", "n", "=", "s", "t", "r", "e",
    "a", "m">>
TokInteractive == <<"-", "-", "i", "n", "t", "e", "r", "a", "c", "t", "i",
    "v", "e">>
TokUpdateAll == <<"-", "-", "u", "p", "d", "a", "t", "e", "-", "a", "l", "l">>
TokIU == <<"-", "i", "U">>
TokEscape == <<"-", "-">>
TokEmpty == <<>>
TokC == <<"-", "c">>
TokCfg == <<"s", "g", "c", "o", "n", "f", "i", "g", ".", "y", "m", "l">>
TokSkip == <<"-", "-", "s", "k", "i", "p", "-", "s", "n", "a", "p", "s",
    "h", "o", "t", "-", "t", "e", "s", "t", "s">>
TokRun == <<"r", "u", "n">>
TokScan == <<"s", "c", "a", "n">>
TokTest == <<"t", "e", "s", "t">>
TokLsp == <<"l", "s", "p">>
TokDocs == <<"d", "o", "c", "s">>

\* enum Commands, by the name clap gives each variant.
CommandName(tok) ==
  CASE tok = TokRun -> "run"
    [] tok = TokScan -> "scan"
    [] tok = TokTest -> "test"
    [] tok = TokLsp -> "lsp"
    [] tok = TokDocs -> "docs"
    [] OTHER -> "none"

\* str::starts_with('-')
starts_with_dash(tok) == tok # <<>> /\ Head(tok) = "-"

is_pattern_flag(tok) == tok = TokP \/ tok = TokPattern

\* The test of main_with_args with its two operands the other way round:
\* args[1] is read first, whatever the length of args.
should_use_default_run_command_index_first(args) ==
  IF Len(args) < 2 THEN "panic"
  ELSE IF starts_with_dash(args[2])
          /\ \E i \in 2..Len(args) : is_pattern_flag(args[i])
       THEN "yes" ELSE "no"

\* args.iter().skip(1).any(|p| p == "-p" || p == "--pattern")
\*   && args[1].starts_with('-')
\* `&&` reads args[1] only when the first operand is true; indexing past the
\* end of the vector panics.  (args[1] is args[2] here: sequences start at 1.)
should_use_default_run_command(args) ==
  IF \E i \in 2..Len(args) : is_pattern_flag(args[i])
  THEN IF Len(args) < 2 THEN "panic"
       ELSE IF starts_with_dash(args[2]) THEN "yes" ELSE "no"
  ELSE "no"

\* The arguments of a subcommand before any is parsed: an Option is a
\* sequence of at most one element (<<>> is None), a Vec a sequence, and the
\* arguments with a default_value hold it (threads in decimal).  `present`
\* holds the arguments met on the command line.
ArgNone ==
  [err |-> FALSE, present |-> {},
   pattern |-> <<>>, lang |-> <<>>, rewrite |-> <<>>, config |-> <<>>,
   skip_snapshot_tests |-> FALSE,
   paths |-> <<>>, follow |-> FALSE, no_ignore |-> <<>>, stdin |-> FALSE,
   globs |-> <<>>, threads |-> <<"0">>,
   interactive |-> FALSE, update_all |-> FALSE, json |-> <<>>,
   color |-> <<"a", "u", "t", "o">>, tracing |-> <<"n", "o", "t", "h", "i",
       "n", "g">>]

\* struct InputArgs: each option's field, long name, short name and action.
InputArgsTable ==
  {[id |-> "follow", long |-> <<"f", "o", "l", "l", "o",
      "w">>, short |-> "", action |-> "SetTrue"],
   [id |-> "no_ignore", long |-> <<"n", "o", "-", "i", "g", "n", "o", "r",
       "e">>, short |-> "", action |-> "Append"],
   [id |-> "stdin", long |-> <<"s", "t", "d", "i",
       "n">>, short |-> "", action |-> "SetTrue"],
   [id |-> "globs", long |-> <<"g", "l", "o", "b",
       "s">>, short |-> "", action |-> "Append"],
   [id |-> "threads", long |-> <<"t", "h", "r", "e", "a", "d",
       "s">>, short |-> "j", action |-> "Set"]}

\* struct OutputArgs: --json takes its value after '=' only (num_args(0..=1),
\* require_equals), the action called Optional here.
OutputArgsTable ==
  {[id |-> "interactive", long |-> <<"i", "n", "t", "e", "r", "a", "c", "t",
      "i", "v", "e">>, short |-> "i", action |-> "SetTrue"],
   [id |-> "update_all", long |-> <<"u", "p", "d", "a", "t", "e", "-", "a",
       "l", "l">>, short |-> "U", action |-> "SetTrue"],
   [id |-> "json", long |-> <<"j", "s", "o",
       "n">>, short |-> "", action |-> "Optional"],
   [id |-> "color", long |-> <<"c", "o", "l", "o",
       "r">>, short |-> "", action |-> "Set"],
   [id |-> "tracing", long |-> <<"t", "r", "a", "c", "i", "n",
       "g">>, short |-> "", action |-> "Set"]}

\* RunArg's own options.
RunArgTable ==
  {[id |-> "pattern", long |-> <<"p", "a", "t", "t", "e", "r",
      "n">>, short |-> "p", action |-> "Set"],
   [id |-> "lang", long |-> <<"l", "a", "n",
       "g">>, short |-> "l", action |-> "Set"],
   [id |-> "rewrite", long |-> <<"r", "e", "w", "r", "i", "t",
       "e">>, short |-> "r", action |-> "Set"]}

\* ScanArg's own options.
ScanArgTable ==
  {[id |-> "config", long |-> <<"c", "o", "n", "f", "i",
      "g">>, short |-> "c", action |-> "Set"]}

\* TestArg's options.
TestArgTable ==
  {[id |-> "config", long |-> <<"c", "o", "n", "f", "i",
      "g">>, short |-> "c", action |-> "Set"],
   [id |-> "skip_snapshot_tests", long |-> <<"s", "k", "i", "p", "-", "s",
       "n", "a", "p", "s", "h", "o", "t", "-", "t", "e", "s", "t",
       "s">>, short |-> "",
    action |-> "SetTrue"],
   [id |-> "interactive", long |-> <<"i", "n", "t", "e", "r", "a", "c", "t",
       "i", "v", "e">>, short |-> "i", action |-> "SetTrue"],
   [id |-> "update_all", long |-> <<"u", "p", "d", "a", "t", "e", "-", "a",
       "l", "l">>, short |-> "U", action |-> "SetTrue"]}

\* The options of a command: run and scan flatten InputArgs and OutputArgs;
\* lsp and docs take none.
command_args(cmd) ==
  CASE cmd = "run" -> RunArgTable \cup InputArgsTable \cup OutputArgsTable
    [] cmd = "scan" -> ScanArgTable \cup InputArgsTable \cup OutputArgsTable
    [] cmd = "test" -> TestArgTable
    [] OTHER -> {}

\* Whether the command takes positional paths (InputArgs::paths).
has_paths(cmd) == cmd \in {"run", "scan"}

NoOption == [id |-> "none", long |-> <<>>, short |-> "", action |-> "none"]

long_option(cmd, name) ==
  IF \E o \in command_args(cmd) : o.long = name
  THEN CHOOSE o \in command_args(cmd) : o.long = name
  ELSE NoOption

short_option(cmd, c) ==
  IF \E o \in command_args(cmd) : o.short = c
  THEN CHOOSE o \in command_args(cmd) : o.short = c
  ELSE NoOption

LangNames == {TokRs, TokTs}

\* The names clap's ValueEnum gives the variants of IgnoreFile.
ignore_file_from_str(v) ==
  CASE v = <<"h", "i", "d", "d", "e", "n">> -> "Hidden"
    [] v = <<"d", "o", "t">> -> "Dot"
    [] v = <<"e", "x", "c", "l", "u", "d", "e">> -> "Exclude"
    [] v = <<"g", "l", "o", "b", "a", "l">> -> "Global"
    [] v = <<"p", "a", "r", "e", "n", "t">> -> "Parent"
    [] v = <<"v", "c", "s">> -> "Vcs"
    [] OTHER -> "none"

JsonStyle == {<<"p", "r", "e", "t", "t", "y">>, <<"s", "t", "r", "e", "a",
    "m">>, <<"c", "o", "m", "p", "a", "c", "t">>}
ColorArg == {<<"a", "u", "t", "o">>, <<"a", "l", "w", "a", "y",
    "s">>, <<"a", "n", "s", "i">>, <<"n", "e", "v", "e", "r">>}
Tracing == {<<"n", "o", "t", "h", "i", "n", "g">>, <<"s", "u", "m", "m",
    "a", "r", "y">>, <<"e", "n", "t", "i", "t", "y">>}

Digits == <<"0", "1", "2", "3", "4", "5", "6", "7", "8", "9">>

\* usize::MAX of a 64-bit target, in decimal.
UsizeMax == <<"1", "8", "4", "4", "6", "7", "4", "4", "0", "7", "3", "7",
    "0", "9", "5", "5", "1", "6", "1", "5">>

is_digit(c) == \E d \in 1..10 : Digits[d] = c

digit(c) == (CHOOSE d \in 1..10 : Digits[d] = c) - 1

RECURSIVE strip_zeros(_)
strip_zeros(s) ==
  IF Len(s) > 1 /\ Head(s) = "0" THEN strip_zeros(Tail(s)) ELSE s

\* Whether the number a is at most the number b, both in decimal without
\* leading zeros.
RECURSIVE decimal_le(_, _)
decimal_le(a, b) ==
  IF Len(a) # Len(b) THEN Len(a) < Len(b)
  ELSE IF a = <<>> THEN TRUE
  ELSE IF Head(a) # Head(b) THEN digit(Head(a)) < digit(Head(b))
  ELSE decimal_le(Tail(a), Tail(b))

\* usize::from_str: an optional '+', then one decimal digit or more, and a
\* value of at most usize::MAX (PosOverflow beyond).  The number is kept in
\* decimal without leading zeros.
usize_from_str(v) ==
  LET s == IF v # <<>> /\ Head(v) = "+" THEN Tail(v) ELSE v
      ok == /\ s # <<>>
            /\ \A i \in 1..Len(s) : is_digit(s[i])
            /\ decimal_le(strip_zeros(s), UsizeMax)
  IN [ok |-> ok, val |-> IF ok THEN strip_zeros(s) ELSE <<>>]

\* The value parser of an argument: the value it stores, or an error.  A
\* PathBuf refuses the empty string.
parse_value(id, v) ==
  CASE id = "lang" -> [ok |-> v \in LangNames, val |-> v]
    [] id = "no_ignore" ->
         [ok |-> ignore_file_from_str(v) # "none", val |-> ignore_file_from_str(v)]
    [] id = "threads" -> usize_from_str(v)
    [] id \in {"paths", "config"} -> [ok |-> v # <<>>, val |-> v]
    [] id = "json" -> [ok |-> v \in JsonStyle, val |-> v]
    [] id = "color" -> [ok |-> v \in ColorArg, val |-> v]
    [] id = "tracing" -> [ok |-> v \in Tracing, val |-> v]
    [] OTHER -> [ok |-> TRUE, val |-> v]

\* Where the value of an option goes: a Vec grows, an Option becomes Some,
\* an argument with a default is replaced.
store_value(a, o, val) ==
  LET b == [a EXCEPT !.present = @ \cup {o.id}]
  IN IF o.action = "Append" THEN [b EXCEPT ![o.id] = Append(@, val)]
     ELSE IF o.id \in {"threads", "color",
         "tracing"} THEN [b EXCEPT ![o.id] = val]
     ELSE [b EXCEPT ![o.id] = <<val>>]

\* A token clap reads as an option rather than as a value: "-x...", "--x..."
\* and the escape "--"; a lone "-" is a value.
looks_like_option(tok) == Len(tok) >= 2 /\ Head(tok) = "-"

Fail(a) == [a EXCEPT !.err = TRUE]

\* clap's pass over a command's arguments.  A long option is --name or
\* --name=value, a short one a cluster -abc whose flags come first and whose
\* value option takes the rest of the cluster (after an optional '=') or the
\* next token; a value is not taken from a token that looks like an option;
\* only Append options may be given twice; every token after "--", and any
\* other token, is a path where the command takes paths; a path is not
\* empty.
RECURSIVE parse_args(_, _, _)
RECURSIVE parse_short(_, _, _, _)
RECURSIVE take_value(_, _, _, _, _)

\* The option o met with an attached value (<<v>>) or without (<<>>).
take_value(cmd, a, o, attached, rest) ==
  IF o.action # "Append" /\ o.id \in a.present THEN Fail(a)
  ELSE IF o.action = "SetTrue"
  THEN IF attached # <<>> THEN Fail(a)
       ELSE parse_args(cmd, [a EXCEPT !.present = @ \cup {o.id}, ![o.id] = TRUE], rest)
  ELSE IF attached # <<>>
  THEN LET p == parse_value(o.id, attached[1])
       IN IF p.ok THEN parse_args(cmd, store_value(a, o, p.val), rest) ELSE Fail(a)
  ELSE IF o.action = "Optional"
  THEN parse_args(cmd, store_value(a, o, <<"p", "r", "e", "t", "t",
      "y">>), rest)
  ELSE IF rest = <<>> \/ looks_like_option(Head(rest)) THEN Fail(a)
  ELSE LET p == parse_value(o.id, Head(rest))
       IN IF p.ok THEN parse_args(cmd, store_value(a, o, p.val), Tail(rest))
          ELSE Fail(a)

\* The characters of a short cluster, after the '-'.
parse_short(cmd, a, cluster, rest) ==
  IF cluster = <<>> THEN parse_args(cmd, a, rest)
  ELSE LET o == short_option(cmd, Head(cluster))
           after == Tail(cluster)
       IN IF o.id = "none" THEN Fail(a)
          ELSE IF o.action = "SetTrue"
          THEN IF o.id \in a.present THEN Fail(a)
               ELSE parse_short(cmd, [a EXCEPT !.present = @ \cup {o.id}, ![o.id] = TRUE],
                                after, rest)
          ELSE IF after = <<>> THEN take_value(cmd, a, o, <<>>, rest)
          ELSE IF Head(after) = "=" THEN take_value(cmd, a, o, <<Tail(after)>>, rest)
          ELSE take_value(cmd, a, o, <<after>>, rest)

parse_args(cmd, a, toks) ==
  IF toks = <<>> THEN a
  ELSE LET t == Head(toks)
           rest == Tail(toks)
       IN IF t = TokEscape
          THEN IF rest = <<>> THEN a
               ELSE IF has_paths(cmd) /\ \A i \in 1..Len(rest) : rest[i] # <<>>
               THEN [a EXCEPT !.paths = @ \o rest]
               ELSE Fail(a)
          ELSE IF StartsWith(t, TokEscape)
          THEN LET body == DropFirst(t, 2)
                   eqs == {i \in 1..Len(body) : body[i] = "="}
                   eq == IF eqs = {} THEN 0 ELSE CHOOSE i \in eqs : \A j \in eqs : i <= j
                   name == IF eq = 0 THEN body ELSE SubSeq(body, 1, eq - 1)
                   o == long_option(cmd, name)
               IN IF o.id = "none" THEN Fail(a)
                  ELSE take_value(cmd, a, o,
                                  IF eq = 0 THEN <<>> ELSE <<DropFirst(body, eq)>>, rest)
          ELSE IF looks_like_option(t) THEN parse_short(cmd, a, Tail(t), rest)
          ELSE IF has_paths(cmd) /\ parse_value("paths", t).ok
          THEN parse_args(cmd, [a EXCEPT !.paths = Append(@, t)], rest)
          ELSE Fail(a)

\* OutputArgs: `conflicts_with = "interactive"` on json is the one conflict
\* the struct declares.
output_args_conflict(a) == "json" \in a.present /\ "interactive" \in a.present

\* <Command>Arg::try_parse_from over the tokens after the command's name:
\* the pass over the tokens, then the required pattern of run, the conflict
\* of OutputArgs, and the default_value of paths.
try_parse_from(cmd, toks) ==
  LET a == parse_args(cmd, ArgNone, toks)
  IN IF a.err THEN Fail(ArgNone)
     ELSE IF cmd = "run" /\ a.pattern = <<>> THEN Fail(ArgNone)
     ELSE IF cmd \in {"run",
         "scan"} /\ output_args_conflict(a) THEN Fail(ArgNone)
     ELSE IF has_paths(cmd) /\ a.paths = <<>> THEN [a EXCEPT !.paths = <<<<".">>>>]
     ELSE a

NoOutcome == [status |-> "none", route |-> "none", ran |-> "none", arg |-> ArgNone]

\* OutputArgs::needs_interactive
needs_interactive(self) == self.interactive \/ self.update_all

\* The match on app.command with the Test arm calling the Scan entry point.
dispatch_test_runs_scan(cmd, a) ==
  IF cmd = "docs"
  THEN [status |-> "panic", route |-> "subcommand", ran |-> "none", arg |-> a]
  ELSE [status |-> "ok", route |-> "subcommand",
        ran |-> IF cmd = "test" THEN "scan" ELSE cmd, arg |-> a]

\* The match on app.command: each command runs its own entry point; Docs
\* is todo!().
dispatch(cmd, a) ==
  IF cmd = "docs"
  THEN [status |-> "panic", route |-> "subcommand", ran |-> "none", arg |-> a]
  ELSE [status |-> "ok", route |-> "subcommand", ran |-> cmd, arg |-> a]

\* main_with_args
main_with_args(args) ==
  LET use_default == should_use_default_run_command(args)
  IN IF use_default = "panic"
     THEN [NoOutcome EXCEPT !.status = "panic"]
     ELSE IF use_default = "yes"
     THEN LET a == try_parse_from("run", Tail(args))
          IN IF a.err
             THEN [NoOutcome EXCEPT !.status = "usage_error", !.route = "default_run"]
             ELSE [status |-> "ok", route |-> "default_run", ran |-> "run", arg |-> a]
     ELSE \* App::try_parse_from: the first argument names the command
          IF Len(args) < 2 \/ CommandName(args[2]) = "none"
          THEN [NoOutcome EXCEPT !.status = "usage_error"]
          ELSE LET cmd == CommandName(args[2])
                   a == try_parse_from(cmd, Tail(Tail(args)))
               IN IF a.err
                  THEN [NoOutcome EXCEPT !.status = "usage_error", !.route = "subcommand"]
                  ELSE dispatch(cmd, a)

\* The tokens a command line is made of.
TokenChoices ==
  {TokP, TokPattern, TokCode, TokL, TokRs, TokI, TokU, TokIU, TokInteractive,
   TokJson, TokJsonStream, TokEmpty, TokRun, TokTest, TokDocs}

ArgvChoices ==
  {<<>>} \cup {<<TokSg>> \o rest : rest \in SeqsUpTo(TokenChoices, MaxArgs)}

\* The program is started: main calls main_with_args(std::env::args()).
Main ==
  /\ outcome.status = "none"
  /\ outcome' = main_with_args(argv)
  /\ UNCHANGED <<argv, walkVars, sevVars, verifyVars, sessVars>>

(***************************************************************************)
(* Rule verification (the test command)                                    *)
(***************************************************************************)
Snippets == {"None", "Some(123)"}

\* The matching engine on the pattern Some($A): the number of matches in a
\* snippet.
match_count(snippet) ==
  CASE snippet = "None" -> 0
    [] snippet = "Some(123)" -> 1
    [] OTHER -> 0

\* The test cases tried: valid and invalid snippets, whether the rule has a
\* rewrite, whether the case declares a snapshot directory, and whether the
\* stored snapshot equals the output the rule produces now.
TestCaseChoices ==
  [valid : SeqsUpTo(Snippets, MaxSnippets),
   invalid : SeqsUpTo(Snippets, MaxSnippets),
   rewrite : BOOLEAN, snapshot : BOOLEAN, stored_equal : BOOLEAN]

VerifierStart ==
  [pc |-> "valid", valid_run |-> 0, invalid_run |-> 0, failures |-> 0,
   compares |-> 0, writes |-> 0, updated |-> 0, report |-> "none"]

Count(s, P(_)) == Cardinality({i \in 1..Len(s) : P(s[i])})

ValidFails(snippet) == match_count(snippet) > 0
InvalidFails(snippet) == match_count(snippet) = 0

TestRuns == outcome.status = "ok" /\ outcome.ran = "test"

\* Every valid snippet is run: one failure for each that matches.
VerifyValid ==
  /\ TestRuns
  /\ verifier.pc = "valid"
  /\ verifier' = [verifier EXCEPT
                    !.pc = "invalid",
                    !.valid_run = Len(testCase.valid),
                    !.failures = @ + Count(testCase.valid, ValidFails)]
  /\ UNCHANGED <<testCase, walkVars, sevVars, cliVars, sessVars>>

\* Every invalid snippet is run: one failure for each without a match.
VerifyInvalid ==
  /\ TestRuns
  /\ verifier.pc = "invalid"
  /\ verifier' = [verifier EXCEPT
                    !.pc = "snapshot",
                    !.invalid_run = Len(testCase.invalid),
                    !.failures = @ + Count(testCase.invalid, InvalidFails)]
  /\ UNCHANGED <<testCase, walkVars, sevVars, cliVars, sessVars>>

\* The snapshot step with the --skip-snapshot-tests flag left unread.
snapshot_step_ignores_skip(v, case, a) ==
  IF ~(case.rewrite /\ case.snapshot)
  THEN [v EXCEPT !.pc = "report"]
  ELSE IF case.stored_equal
  THEN [v EXCEPT !.pc = "report", !.compares = @ + 1]
  ELSE IF a.update_all
  THEN [v EXCEPT !.pc = "report", !.compares = @ + 1, !.writes = @ + 1,
                 !.updated = @ + 1]
  ELSE [v EXCEPT !.pc = "report", !.compares = @ + 1, !.failures = @ + 1]

\* The snapshot step: nothing under --skip-snapshot-tests, or without a
\* rewrite and a declared snapshot; otherwise one comparison, and on a
\* mismatch a rewritten snapshot in update mode, a failure if not.
snapshot_step(v, case, a) ==
  IF a.skip_snapshot_tests \/ ~(case.rewrite /\ case.snapshot)
  THEN [v EXCEPT !.pc = "report"]
  ELSE IF case.stored_equal
  THEN [v EXCEPT !.pc = "report", !.compares = @ + 1]
  ELSE IF a.update_all
  THEN [v EXCEPT !.pc = "report", !.compares = @ + 1, !.writes = @ + 1,
                 !.updated = @ + 1]
  ELSE [v EXCEPT !.pc = "report", !.compares = @ + 1, !.failures = @ + 1]

VerifySnapshot ==
  /\ TestRuns
  /\ verifier.pc = "snapshot"
  /\ verifier' = snapshot_step(verifier, testCase, outcome.arg)
  /\ UNCHANGED <<testCase, walkVars, sevVars, cliVars, sessVars>>

\* The report: success when no failure remains.
VerifyReport ==
  /\ TestRuns
  /\ verifier.pc = "report"
  /\ verifier' = [verifier EXCEPT
                    !.pc = "done",
                    !.report = IF verifier.failures = 0 THEN "success" ELSE "failure"]
  /\ UNCHANGED <<testCase, walkVars, sevVars, cliVars, sessVars>>

\* Invocations of the test command, and one of scan.
TestArgvChoices ==
  {<<TokSg, TokTest, TokC, TokCfg>>,
   <<TokSg, TokTest, TokC, TokCfg, TokSkip>>,
   <<TokSg, TokTest, TokC, TokCfg, TokU>>,
   <<TokSg, TokTest, TokC, TokCfg, TokSkip, TokU>>,
   <<TokSg, TokTest, TokSkip>>,
   <<TokSg, TokScan, TokC, TokCfg>>}

(***************************************************************************)
(* The interactive rewrite session                                         *)
(***************************************************************************)
EditFiles == <<"f1", "f2">>

\* The edits of a file, in position order.
EditsOf(file, n) == [i \in 1..n |-> [file |-> file, pos |-> i]]

AskEveryFile == [f \in Range(EditFiles) |-> "ask"]

SessionRunning == phase = "Awaiting-Decision"

\* The stream without the edits of a file: the file is skipped.
SkipFile(s, file) == SelectSeq(s, LAMBDA e : e.file # file)

\* An accepted edit is applied to its file.  The file is either as it was
\* read (fresh) and the edit is applied, or it changed on disk: the session
\* reports a StaleFileError for the file, applies nothing, skips the file
\* and continues with the next one.
ApplyEdit(e, fresh, s) ==
  IF fresh
  THEN applied' = applied \cup {e} /\ stale' = stale /\ stream' = s
  ELSE applied' = applied /\ stale' = stale \cup {e.file}
       /\ stream' = SkipFile(s, e.file)

\* The loop pulls the next edit, in file-then-position order, and offers it:
\* an edit of a file under accept-all or reject-all is decided at once, any
\* other is Deferred until the user decides.
Pull ==
  /\ SessionRunning
  /\ pending = <<>>
  /\ stream # <<>>
  /\ LET e == Head(stream)
     IN /\ offered' = offered + 1
        /\ CASE fileMode[e.file] = "accept" ->
                  /\ accepted' = accepted \cup {e}
                  /\ \E fresh \in BOOLEAN : ApplyEdit(e, fresh, Tail(stream))
                  /\ UNCHANGED <<rejected, pending, deferred>>
             [] fileMode[e.file] = "reject" ->
                  /\ rejected' = rejected \cup {e}
                  /\ stream' = Tail(stream)
                  /\ UNCHANGED <<accepted, applied, pending, deferred, stale>>
             [] OTHER ->
                  /\ pending' = <<e>>
                  /\ deferred' = deferred \cup {e}
                  /\ stream' = Tail(stream)
                  /\ UNCHANGED <<accepted, rejected, applied, stale>>
  /\ UNCHANGED <<phase, fileMode, walkVars, sevVars, cliVars, verifyVars>>

\* Accept: the offered edit is marked Accepted and applied.
Accept ==
  /\ SessionRunning
  /\ pending # <<>>
  /\ accepted' = accepted \cup {Head(pending)}
  /\ deferred' = deferred \ {Head(pending)}
  /\ \E fresh \in BOOLEAN : ApplyEdit(Head(pending), fresh, stream)
  /\ pending' = Tail(pending)
  /\ UNCHANGED <<rejected, offered, phase, fileMode,
                 walkVars, sevVars, cliVars, verifyVars>>

\* Reject: the offered edit is marked Rejected and dropped.
Reject ==
  /\ SessionRunning
  /\ pending # <<>>
  /\ rejected' = rejected \cup {Head(pending)}
  /\ deferred' = deferred \ {Head(pending)}
  /\ pending' = Tail(pending)
  /\ UNCHANGED <<stream, stale, accepted, applied, offered, phase, fileMode,
                 walkVars, sevVars, cliVars, verifyVars>>

\* Deferred-to-editor: the offered edit is handed to the editor; it stays
\* Deferred, the session applies nothing and moves on.
DeferToEditor ==
  /\ SessionRunning
  /\ pending # <<>>
  /\ pending' = Tail(pending)
  /\ UNCHANGED <<stream, deferred, stale, accepted, rejected, applied, offered,
                 phase, fileMode, walkVars, sevVars, cliVars, verifyVars>>

\* Accept all remaining in file: the offered edit is accepted and applied,
\* and so is every later edit of its file as the loop reaches it.
AcceptAllInFile ==
  /\ SessionRunning
  /\ pending # <<>>
  /\ accepted' = accepted \cup {Head(pending)}
  /\ deferred' = deferred \ {Head(pending)}
  /\ \E fresh \in BOOLEAN : ApplyEdit(Head(pending), fresh, stream)
  /\ fileMode' = [fileMode EXCEPT ![Head(pending).file] = "accept"]
  /\ pending' = Tail(pending)
  /\ UNCHANGED <<rejected, offered, phase,
                 walkVars, sevVars, cliVars, verifyVars>>

\* Reject all remaining in file.
RejectAllInFile ==
  /\ SessionRunning
  /\ pending # <<>>
  /\ rejected' = rejected \cup {Head(pending)}
  /\ deferred' = deferred \ {Head(pending)}
  /\ fileMode' = [fileMode EXCEPT ![Head(pending).file] = "reject"]
  /\ pending' = Tail(pending)
  /\ UNCHANGED <<stream, stale, accepted, applied, offered, phase,
                 walkVars, sevVars, cliVars, verifyVars>>

\* Quit taken as a last Accept: the offered edit is applied on the way out.
Quit_applies_offered ==
  /\ SessionRunning
  /\ pending # <<>>
  /\ phase' = "Aborted"
  /\ applied' = applied \cup {Head(pending)}
  /\ UNCHANGED <<stream, pending, deferred, stale, accepted, rejected, offered,
                 fileMode, walkVars, sevVars, cliVars, verifyVars>>

\* Quit: the session is aborted; the offered edit stays undecided and
\* nothing is applied.
Quit ==
  /\ SessionRunning
  /\ pending # <<>>
  /\ phase' = "Aborted"
  /\ UNCHANGED <<stream, pending, deferred, stale, accepted, rejected, applied,
                 offered, fileMode, walkVars, sevVars, cliVars, verifyVars>>

\* The stream is exhausted: the session is done.
Finish ==
  /\ SessionRunning
  /\ pending = <<>>
  /\ stream = <<>>
  /\ phase' = "Done"
  /\ UNCHANGED <<stream, pending, deferred, stale, accepted, rejected, applied,
                 offered, fileMode, walkVars, sevVars, cliVars, verifyVars>>

(***************************************************************************)
(* Specifications: one per component, the others at rest                   *)
(***************************************************************************)
WalkAtRest ==
  input = InputDefault /\ parallelism = 0 /\ cwd = TRUE /\ walker = NoWalker

SeverityAtRest ==
  /\ ruleDefault = [r \in Rules |-> "Warning"]
  /\ given = <<>> /\ sev = SeverityArgNone /\ resolved = <<>>

CliAtRest == argv = <<>> /\ outcome = NoOutcome

VerifyAtRest ==
  /\ testCase = [valid |-> <<>>, invalid |-> <<>>, rewrite |-> FALSE,
                 snapshot |-> FALSE, stored_equal |-> TRUE]
  /\ verifier = VerifierStart

SessionAtRest ==
  /\ stream = <<>> /\ pending = <<>> /\ deferred = {} /\ stale = {}
  /\ accepted = {} /\ rejected = {}
  /\ applied = {} /\ offered = 0 /\ phase = "Awaiting-Decision"
  /\ fileMode = AskEveryFile

\* Building a walk from an InputArgs value.
\* The thread inputs meet every parallelism, the others the two extremes.
InitWalk ==
  /\ \/ input \in ThreadInputs /\ parallelism \in 0..MaxCores
     \/ input \in KindInputs \cup GlobInputs /\ parallelism \in {0, MaxCores}
  /\ cwd \in BOOLEAN
  /\ walker = NoWalker
  /\ SeverityAtRest /\ CliAtRest /\ VerifyAtRest /\ SessionAtRest

NextWalk == Walk \/ WalkLang

SpecWalk == InitWalk /\ [][NextWalk]_vars

\* Severity flags are parsed one by one, then severities are resolved.
InitSeverity ==
  /\ ruleDefault \in [Rules -> DefaultChoices]
  /\ given = <<>> /\ sev = SeverityArgNone /\ resolved = <<>>
  /\ WalkAtRest /\ CliAtRest /\ VerifyAtRest /\ SessionAtRest

NextSeverity == GiveSeverityFlag \/ ResolveSeverity

SpecSeverity == InitSeverity /\ [][NextSeverity]_vars

\* The program is run on a command line.
InitCli ==
  /\ argv \in ArgvChoices
  /\ outcome = NoOutcome
  /\ WalkAtRest /\ SeverityAtRest /\ VerifyAtRest /\ SessionAtRest

NextCli == Main

SpecCli == InitCli /\ [][NextCli]_vars

\* The program is run on a test command line, and the verifier runs.
InitVerify ==
  /\ argv \in TestArgvChoices
  /\ outcome = NoOutcome
  /\ testCase \in TestCaseChoices
  /\ verifier = VerifierStart
  /\ WalkAtRest /\ SeverityAtRest /\ SessionAtRest

NextVerify == Main \/ VerifyValid \/ VerifyInvalid \/ VerifySnapshot \/ VerifyReport

SpecVerify == InitVerify /\ [][NextVerify]_vars

\* An interactive session over the edits of two files.
InitSession ==
  /\ \E n1 \in 0..MaxEdits, n2 \in 0..MaxEdits :
       stream = EditsOf(EditFiles[1], n1) \o EditsOf(EditFiles[2], n2)
  /\ pending = <<>> /\ deferred = {} /\ stale = {}
  /\ accepted = {} /\ rejected = {} /\ applied = {}
  /\ offered = 0 /\ phase = "Awaiting-Decision" /\ fileMode = AskEveryFile
  /\ WalkAtRest /\ SeverityAtRest /\ CliAtRest /\ VerifyAtRest

NextSession ==
  \/ Pull \/ Accept \/ Reject \/ DeferToEditor
  \/ AcceptAllInFile \/ RejectAllInFile \/ Quit \/ Finish

SpecSession == InitSession /\ [][NextSession]_vars

\* The operation that built the current walker, applied to another input.
Rebuild(inp) ==
  IF walker.op = "walk" THEN InputArgs_walk(inp, parallelism, cwd)
  ELSE InputArgs_walk_lang(inp, walker.types, parallelism)

Settings(w) ==
  [hidden |-> w.hidden, parents |-> w.parents, ignore |-> w.ignore,
   git_global |-> w.git_global, git_ignore |-> w.git_ignore,
   git_exclude |-> w.git_exclude]

(***************************************************************************)
(* Claims about the walk                                                   *)
(***************************************************************************)
VcsKinds == {"Parent", "Global", "Exclude"}

\* C1 (as stated): whenever Vcs is among the --no-ignore kinds, the built
\* walker has parents, git_global, git_ignore and git_exclude all switched
\* off.
C1_VcsSwitchesOffParents ==
  (walker.status = "ok" /\ "Vcs" \in Range(input.no_ignore))
    => (~walker.parents /\ ~walker.git_global /\ ~walker.git_ignore
        /\ ~walker.git_exclude)

\* C1 (amended): whenever Vcs is among the --no-ignore kinds, the built
\* walker has git_global, git_ignore and git_exclude switched off, whether
\* or not Global or Exclude are given too; parents is switched off exactly
\* when Parent is given.
C1_VcsSwitchesOffGit ==
  (walker.status = "ok" /\ "Vcs" \in Range(input.no_ignore))
    => /\ ~walker.git_global /\ ~walker.git_ignore /\ ~walker.git_exclude
       /\ walker.parents = ("Parent" \notin Range(input.no_ignore))

\* A walker built from Vcs alone: the git sources are off, parents is on.
C1_Witness ==
  /\ walker.status = "ok"
  /\ "Vcs" \in Range(input.no_ignore)
  /\ Range(input.no_ignore) \cap VcsKinds = {}
  /\ ~walker.git_global /\ ~walker.git_exclude /\ walker.parents

GlobsCompile(globs) == \A i \in 1..Len(globs) : glob_compiles(globs[i])

\* C2: building a walk (walk or walk_lang) never panics; it returns an error
\* and no walker when the path list is empty or a glob does not compile, and
\* it succeeds for a non-empty path list with well-formed globs (the current
\* directory being readable).
C2_WalkFailsCleanly ==
  walker.op # "none"
    => /\ walker.status # "panic"
       /\ (input.paths = <<>> \/ ~GlobsCompile(input.globs))
            => walker.status = "err"
       /\ (input.paths # <<>> /\ GlobsCompile(input.globs) /\ cwd)
            => walker.status = "ok"

\* C3: the thread count of a built walker is at least 1; with threads = 0
\* it is the available parallelism capped at 12 (1 when the parallelism is
\* unknown), and otherwise it is the threads option itself.
C3_ThreadsAtLeastOne ==
  walker.status = "ok"
    => /\ walker.threads >= 1
       /\ input.threads = 0
            => walker.threads =
                 (IF parallelism = 0 THEN 1
                  ELSE IF parallelism > ThreadCap THEN ThreadCap
                  ELSE parallelism)
       /\ input.threads > 0 => walker.threads = input.threads

\* The heuristic hit its cap: more than 12 cores, 12 threads.
C3_Witness ==
  /\ walker.status = "ok"
  /\ input.threads = 0
  /\ parallelism > ThreadCap
  /\ walker.threads = ThreadCap

\* The walker setting a kind other than Vcs switches off.
OwnSetting(kind) ==
  CASE kind = "Hidden"  -> "hidden"
    [] kind = "Dot"     -> "ignore"
    [] kind = "Exclude" -> "git_exclude"
    [] kind = "Global"  -> "git_global"
    [] kind = "Parent"  -> "parents"

SettingNames == {"hidden", "parents", "ignore", "git_global", "git_ignore",
    "git_exclude"}

SwapAt(s, i) == [j \in 1..Len(s) |-> IF j = i THEN s[i + 1]
                                     ELSE IF j = i + 1 THEN s[i] ELSE s[j]]

WithKinds(kinds) == [input EXCEPT !.no_ignore = kinds]

\* C9: adding one of Hidden, Dot, Exclude, Global, Parent to the kinds
\* switches its own walker setting off and leaves every other setting as it
\* was; and the settings are the same when two neighbouring kinds are
\* swapped or a kind already given is given again (so they depend on the set
\* of kinds only).
C9_KindsToggleOneSetting ==
  walker.status = "ok"
    => LET here == Settings(walker)
           kinds == input.no_ignore
       IN /\ \A k \in IgnoreFile \ {"Vcs"} :
               LET there == Settings(Rebuild(WithKinds(Append(kinds, k))))
               IN /\ ~there[OwnSetting(k)]
                  /\ \A n \in SettingNames \ {OwnSetting(k)} : there[n] = here[n]
          /\ \A i \in 1..(Len(kinds) - 1) :
               Settings(Rebuild(WithKinds(SwapAt(kinds, i)))) = here
          /\ \A k \in Range(kinds) :
               Settings(Rebuild(WithKinds(Append(kinds, k)))) = here

\* Dot and Exclude given together: their two settings are off, hidden is on.
C9_Witness ==
  /\ walker.status = "ok"
  /\ Len(input.no_ignore) >= 2
  /\ input.no_ignore[1] = "Dot"
  /\ input.no_ignore[2] = "Exclude"
  /\ ~walker.ignore /\ ~walker.git_exclude /\ walker.hidden

\* The overrides build_globs makes of a list of globs that compile.
KeptGlobs(globs) == build_globs_loop(<<>>, globs).globs

\* C10: every built walk honours the --globs overrides: a file the globs
\* exclude is a candidate of neither walk nor walk_lang.
C10_WalksHonourGlobs ==
  (walker.status = "ok" /\ GlobsCompile(input.globs))
    => \A f \in Files :
         override_matched(KeptGlobs(input.globs), f, FALSE) = "Ignore"
           => f \notin Candidates(walker)

(***************************************************************************)
(* Claims about severity resolution                                        *)
(***************************************************************************)
\* Whether some flag of the level, anywhere on the command line, lists the rule.
GivenFor(flags, level, rule) ==
  \E i \in 1..Len(flags) : flags[i].level = level /\ rule \in Range(flags[i].ids)

\* The severity the fixed order gives a rule, from the flags as given.
ByFixedOrder(flags, rule) ==
  CASE GivenFor(flags, "off", rule) -> "Off"
    [] GivenFor(flags, "error", rule) -> "Error"
    [] GivenFor(flags, "warning", rule) -> "Warning"
    [] GivenFor(flags, "info", rule) -> "Info"
    [] GivenFor(flags, "hint", rule) -> "Hint"
    [] OTHER -> ruleDefault[rule]

RECURSIVE ParseFlags(_, _)
ParseFlags(arg, flags) ==
  IF flags = <<>> THEN arg
  ELSE ParseFlags(severity_flag(arg, Head(flags).level, Head(flags).ids), Tail(flags))

\* C4: the effective severity of every rule is the one the fixed order Off,
\* Error, Warning, Info, Hint, default gives it; a rule listed under --off
\* and --error resolves to Off; and giving the flags in another order
\* (any two neighbours swapped) resolves every rule the same.
C4_SeverityFixedOrder ==
  resolved # <<>>
    => \A r \in Rules :
         /\ resolved[1][r] = ByFixedOrder(given, r)
         /\ (GivenFor(given, "off", r) /\ GivenFor(given, "error", r))
              => resolved[1][r] = "Off"
         /\ \A i \in 1..(Len(given) - 1) :
              effective_severity(r, ParseFlags(SeverityArgNone, SwapAt(given, i)),
                                 ruleDefault[r]) = resolved[1][r]

\* r1 is listed under --off and then under --error, and resolves to Off.
C4_Witness ==
  /\ resolved # <<>>
  /\ Len(given) >= 2
  /\ given[1].level = "off" /\ "r1" \in Range(given[1].ids)
  /\ given[2].level = "error" /\ "r1" \in Range(given[2].ids)
  /\ resolved[1]["r1"] = "Off"

(***************************************************************************)
(* Claims about rule verification                                          *)
(***************************************************************************)
AllPass(case) ==
  /\ \A i \in 1..Len(case.valid) : match_count(case.valid[i]) = 0
  /\ \A i \in 1..Len(case.invalid) : match_count(case.invalid[i]) >= 1

SkipGiven == \E i \in 1..Len(argv) : argv[i] = TokSkip

\* C5: a test command line that is accepted runs the verifier; under
\* --skip-snapshot-tests the verifier never compares or writes a snapshot,
\* whatever the test case declares; the valid and the invalid snippets are
\* all run; and when every valid snippet has no match and every invalid
\* snippet has one, the report is success.
C5_SkipSnapshotTests ==
  /\ (outcome.status = "ok" /\ argv[2] = TokTest) => outcome.ran = "test"
  /\ (outcome.status = "ok" /\ outcome.ran = "test" /\ SkipGiven)
       => /\ outcome.arg.skip_snapshot_tests
          /\ verifier.compares = 0 /\ verifier.writes = 0
          /\ verifier.pc = "done"
               => /\ verifier.valid_run = Len(testCase.valid)
                  /\ verifier.invalid_run = Len(testCase.invalid)
                  /\ AllPass(testCase) => verifier.report = "success"

\* The scenario of the test: valid None, invalid Some(123), a rewrite and a
\* declared snapshot that differs, run to the end under the flag.
C5_Witness ==
  /\ SkipGiven
  /\ outcome.ran = "test"
  /\ testCase.valid = <<"None">> /\ testCase.invalid = <<"Some(123)">>
  /\ testCase.rewrite /\ testCase.snapshot /\ ~testCase.stored_equal
  /\ verifier.pc = "done"
  /\ verifier.valid_run = 1 /\ verifier.invalid_run = 1
  /\ verifier.report = "success"

(***************************************************************************)
(* Claims about the interactive session                                    *)
(***************************************************************************)
SessionCounts ==
  /\ Cardinality(accepted) + Cardinality(rejected) + Cardinality(deferred)
       = offered
  /\ accepted \cap rejected = {} /\ accepted \cap deferred = {}
  /\ rejected \cap deferred = {}
  /\ Range(pending) \subseteq deferred
  /\ applied \subseteq accepted
  /\ \A e \in accepted \ applied : e.file \in stale
  /\ applied \cap (deferred \cup Range(stream)) = {}

(* Claims about the command line                                           *)
(***************************************************************************)
\* C7: no accepted command line of run or scan (the commands that take
\* OutputArgs) selects both interactive and update_all.
C7_ModesExclusive ==
  (outcome.status = "ok" /\ outcome.ran \in {"run", "scan"}
     /\ needs_interactive(outcome.arg))
    => ~(outcome.arg.interactive /\ outcome.arg.update_all)

HasPatternFlag(args) == \E i \in 2..Len(args) : args[i] \in {TokP, TokPattern}

\* C8: main_with_args takes the default run command exactly when an
\* argument after the program name is -p or --pattern and the first one
\* starts with '-'; it never panics on reading args[1]; and a command line
\* with no subcommand and no pattern flag is a usage error that runs nothing.
C8_DefaultRunDispatch ==
  outcome.status # "none"
    => /\ (outcome.route = "default_run")
            <=> (HasPatternFlag(argv) /\ argv[2] # <<>> /\ Head(argv[2]) = "-")
       /\ (Len(argv) < 2 \/ CommandName(argv[2]) = "none")
            => outcome.status # "panic"
       /\ ((Len(argv) < 2 \/ CommandName(argv[2]) = "none") /\ ~HasPatternFlag(argv))
            => (outcome.status = "usage_error" /\ outcome.ran = "none")

\* sg Some($A) -l rs: no subcommand, no pattern flag, a usage error.
C8_Witness ==
  /\ argv = <<TokSg, TokCode, TokL, TokRs>>
  /\ outcome.status = "usage_error"
  /\ outcome.route = "none"

====
